---- MODULE Spec2Model ----
(***************************************************************************)
(* MobiERP cost-layer inventory engine: the lot ledger                     *)
(* (inventory_purchases), the sale trigger check_and_allocate_inventory    *)
(* with calculate_sale_cost and allocate_inventory_on_sale, the restock    *)
(* paths (add_product_stock, the stock triggers, the updateProductStock    *)
(* manual fallback), the costing-method setting, the valuation report      *)
(* calculate_inventory_value and the sale numbering buildSaleNumber.       *)
(*                                                                         *)
(* Spec     : requests served one after another, each a whole handler.     *)
(* SpecConc : two sale transactions of one product interleaved statement   *)
(*            by statement under READ COMMITTED with row locks.            *)
(* SpecSaleNumber : buildSaleNumber applied to last numbers of any shape.  *)
(*                                                                         *)
(* Deployment modelled: the base schema with add-fifo-lifo-support.sql     *)
(* applied (sale trigger, initial-stock trigger, stock-increase trigger)   *)
(* and the three-argument add_product_stock RPC the client calls.          *)
(* Money is kept in hundredths (DECIMAL(10,2)): 1000 is 10.00.             *)
(***************************************************************************)
EXTENDS Integers, Sequences, FiniteSets, TLC

\* ---------------------------------------------------------------- bounds
Products == {1}
Costs == {1000, 1200}
MaxLots == 3
MaxRestock == 2
MaxSaleQty == 3
MaxSaleItems == 2
MaxSales == 2

NoSetting == "<no row>"
SettingValues == {"FIFO", "LIFO", "AVERAGE", "NONE"}

VARIABLES
  products,             \* products table: id -> row
  inventory_purchases,  \* lot ledger, in insertion order
  setting_value,        \* system_settings.setting_value of inventory_costing_method
  sale_items,           \* sale_items table, in insertion order
  sales,                \* number of rows of the sales (header) table
  sale_number,          \* today's date key, the sale_number of the latest header row
                        \* and the last number it was built from
  clock,                \* NOW(): advances with every lot-creating transaction
  last,                 \* the most recent request and how it ended
  tx,                   \* SpecConc: the open sale transaction of each session
  row_lock,             \* SpecConc: holder of each lot's row lock, 0 if free
  product_lock,         \* SpecConc: holder of the product's row lock, 0 if free
  stock0,               \* SpecConc: products.stock before the two sales
  lockCount,            \* SpecUiLock: the state of UiLockProvider
  calls                 \* SpecUiLock: how far each runWithLock call has got

seqVars == <<products, inventory_purchases, setting_value, sale_items, sales, sale_number,
             clock, last>>
concVars == <<tx, row_lock, product_lock, stock0>>
uiVars == <<lockCount, calls>>
vars == <<seqVars, concVars, uiVars>>

MaxCalls == 3
Calls == 1..MaxCalls
NoProduct == [exists |-> FALSE, stock |-> 0, cost |-> 0, is_active |-> FALSE]
Sessions == {1, 2}
TxIdle == [pc |-> "idle", q |-> 0, v_product_stock |-> 0, cost_price |-> 0,
           order |-> <<>>, k |-> 0, got |-> <<>>, lots |-> <<>>, stock |-> 0,
           err |-> "none"]
Answer(op, err, line) == [op |-> op, err |-> err, line |-> line]

\* ---------------------------------------------------------------- helpers
Min(a, b) == IF a <= b THEN a ELSE b

RECURSIVE SumSeq(_, _)
SumSeq(f, k) == IF k = 0 THEN 0 ELSE f[k] + SumSeq(f, k - 1)

\* numeric ROUND / coercion to a scale-2 column: half away from zero
RoundDiv(n, d) ==
  IF n >= 0 THEN (2 * n + d) \div (2 * d) ELSE -((2 * (-n) + d) \div (2 * d))

LotsOf(L, p) == {i \in 1..Len(L) : L[i].product_id = p}

SumRemaining(L, p) ==
  SumSeq([i \in 1..Len(L) |-> IF L[i].product_id = p THEN L[i].remaining_quantity ELSE 0],
         Len(L))

Received(L, p) ==
  SumSeq([i \in 1..Len(L) |-> IF L[i].product_id = p THEN L[i].quantity ELSE 0], Len(L))

\* ORDER BY purchased_at, id
Before(a, b) ==
  \/ a.purchased_at < b.purchased_at
  \/ a.purchased_at = b.purchased_at /\ a.id < b.id

RECURSIVE SortIdx(_, _, _)
SortIdx(L, S, asc) ==
  IF S = {} THEN <<>>
  ELSE LET m == CHOOSE i \in S : \A j \in S \ {i} :
                  IF asc THEN Before(L[i], L[j]) ELSE Before(L[j], L[i])
       IN <<m>> \o SortIdx(L, S \ {m}, asc)

\* SELECT ... WHERE product_id = p AND remaining_quantity > 0 ORDER BY ...
UnconsumedLots(L, p, asc) ==
  SortIdx(L, {i \in LotsOf(L, p) : L[i].remaining_quantity > 0}, asc)

\* faulty variant: products is created without CHECK (stock >= 0)
ProductChecksOff(stock) == TRUE

\* the CHECK constraint of products.stock
ProductChecks(stock) == stock >= 0

\* faulty variant: the table is created without its CHECK constraints
LotChecksOff(l) == TRUE

\* the CHECK constraints of inventory_purchases
LotChecks(l) ==
  /\ l.quantity > 0
  /\ l.unit_cost >= 0
  /\ l.remaining_quantity >= 0
  /\ l.remaining_quantity <= l.quantity

\* faulty variant: the lot is written without its remaining quantity
NewLotUnfilled(id, p, q, c, t) ==
  [id |-> id, product_id |-> p, quantity |-> q, unit_cost |-> c,
   remaining_quantity |-> 0, purchased_at |-> t]

NewLot(id, p, q, c, t) ==
  [id |-> id, product_id |-> p, quantity |-> q, unit_cost |-> c,
   remaining_quantity |-> q, purchased_at |-> t]

\* ---------------------------------------------------------------- policy
\* faulty variant: a missing row is handed on as it is, without the COALESCE
get_inventory_costing_method_null(v) == v

\* SELECT setting_value INTO v_method ...; RETURN COALESCE(v_method, 'FIFO')
get_inventory_costing_method(v) == IF v = NoSetting THEN "FIFO" ELSE v

\* ---------------------------------------------------------------- cost
RECURSIVE CostLoop(_, _, _, _, _)
CostLoop(L, order, k, need, total) ==
  IF k > Len(order) THEN total
  ELSE LET v_purchase == L[order[k]]
           v_allocated == Min(v_purchase.remaining_quantity, need)
           t2 == total + v_allocated * v_purchase.unit_cost
           n2 == need - v_allocated
       IN IF n2 = 0 THEN t2 ELSE CostLoop(L, order, k + 1, n2, t2)

\* the ELSE branch: the weighted average is selected INTO v_total_cost, a
\* DECIMAL(10,2) variable, and only then multiplied by the quantity
AverageCost(L, p, q) ==
  LET S == {i \in LotsOf(L, p) : L[i].remaining_quantity > 0}
      units == SumRemaining(L, p)
      value == SumSeq([i \in 1..Len(L) |->
                         IF i \in S THEN L[i].remaining_quantity * L[i].unit_cost ELSE 0],
                      Len(L))
      v_total_cost == IF units = 0 THEN 0 ELSE RoundDiv(value, units)
  IN v_total_cost * q

\* faulty variant: the LIFO cost is taken from the oldest lots
calculate_sale_cost_oldest(L, setting, p, q) ==
  LET v_method == get_inventory_costing_method(setting)
  IN IF v_method = "FIFO" THEN CostLoop(L, UnconsumedLots(L, p, TRUE), 1, q, 0)
     ELSE IF v_method = "LIFO" THEN CostLoop(L, UnconsumedLots(L, p, TRUE), 1, q, 0)
     ELSE AverageCost(L, p, q)

calculate_sale_cost(L, setting, p, q) ==
  LET v_method == get_inventory_costing_method(setting)
  IN IF v_method = "FIFO" THEN CostLoop(L, UnconsumedLots(L, p, TRUE), 1, q, 0)
     ELSE IF v_method = "LIFO" THEN CostLoop(L, UnconsumedLots(L, p, FALSE), 1, q, 0)
     ELSE AverageCost(L, p, q)

\* ---------------------------------------------------------------- allocation
RECURSIVE AllocLoop(_, _, _, _)
AllocLoop(L, order, k, need) ==
  IF k > Len(order) THEN [lots |-> L, need |-> need]
  ELSE LET i == order[k]
           v_allocated == Min(L[i].remaining_quantity, need)
           L2 == [L EXCEPT ![i].remaining_quantity = @ - v_allocated]
           n2 == need - v_allocated
       IN IF n2 = 0 THEN [lots |-> L2, need |-> 0]
          ELSE AllocLoop(L2, order, k + 1, n2)

\* faulty variant: the FIFO walk starts from the newest lot
AllocOrderNewestFirst(L, setting, p) ==
  LET v_method == get_inventory_costing_method(setting)
  IN IF v_method = "FIFO" THEN UnconsumedLots(L, p, FALSE)
     ELSE IF v_method = "LIFO" THEN UnconsumedLots(L, p, FALSE)
     ELSE UnconsumedLots(L, p, TRUE)

\* faulty variant: the AVERAGE walk starts from the newest lot
AllocOrderAverageNewest(L, setting, p) ==
  LET v_method == get_inventory_costing_method(setting)
  IN IF v_method = "FIFO" THEN UnconsumedLots(L, p, TRUE)
     ELSE IF v_method = "LIFO" THEN UnconsumedLots(L, p, FALSE)
     ELSE UnconsumedLots(L, p, FALSE)

AllocOrder(L, setting, p) ==
  LET v_method == get_inventory_costing_method(setting)
  IN IF v_method = "FIFO" THEN UnconsumedLots(L, p, TRUE)
     ELSE IF v_method = "LIFO" THEN UnconsumedLots(L, p, FALSE)
     ELSE UnconsumedLots(L, p, TRUE)

\* faulty variant: a walk that ran out of lots is let through
AllocResultShort(r) == [lots |-> r.lots, err |-> "none"]

\* result: the ledger after the walk and the error raised, if any
AllocResult(r) ==
  IF \E i \in 1..Len(r.lots) : ~LotChecks(r.lots[i])
    THEN [lots |-> r.lots, err |-> "check constraint"]
  ELSE IF r.need > 0
    THEN [lots |-> r.lots, err |-> "Insufficient inventory to allocate"]
  ELSE [lots |-> r.lots, err |-> "none"]

allocate_inventory_on_sale(L, setting, p, q) ==
  AllocResult(AllocLoop(L, AllocOrder(L, setting, p), 1, q))

\* ---------------------------------------------------------------- sale numbers
\* strings are sequences of one-character strings
Digits == <<"0", "1", "2", "3", "4", "5", "6", "7", "8", "9">>
DigitChars == {Digits[i] : i \in 1..10}
Chr(d) == Digits[d + 1]
Val(c) == CHOOSE d \in 0..9 : Chr(d) = c
Null == <<"null">>
NaN == -1
SalePrefix == <<"S", "A", "L", "E", "-">>
\* the date key, DDMMYYYY, of the day the shop is open
Today == <<"1", "4", "0", "2", "2", "0", "2", "6">>

\* lastSaleNumber.split('-').pop()
SplitPop(str) ==
  LET dashes == {i \in 1..Len(str) : str[i] = "-"}
  IN IF dashes = {} THEN str
     ELSE SubSeq(str, (CHOOSE i \in dashes : \A j \in dashes : j <= i) + 1, Len(str))

RECURSIVE ParseDigits(_, _, _)
ParseDigits(str, i, n) ==
  IF i > Len(str) \/ str[i] \notin DigitChars THEN n
  ELSE ParseDigits(str, i + 1, 10 * n + Val(str[i]))

\* faulty variant: a segment with anything but digits in it is not a number
parseInt_strict(str) ==
  IF str = <<>> \/ \E i \in 1..Len(str) : str[i] \notin DigitChars THEN NaN
  ELSE ParseDigits(str, 1, 0)

\* parseInt(string): the digits the string starts with, NaN if it starts with none
parseInt(str) ==
  IF str = <<>> \/ str[1] \notin DigitChars THEN NaN ELSE ParseDigits(str, 1, 0)

RECURSIVE toString(_)
toString(n) == IF n < 10 THEN <<Chr(n)>> ELSE toString(n \div 10) \o <<Chr(n % 10)>>

padStart(str, targetLength, c) ==
  IF Len(str) >= targetLength THEN str
  ELSE [i \in 1..(targetLength - Len(str)) |-> c] \o str

buildSaleNumber(dateKey, lastSaleNumber) ==
  LET segment == SplitPop(lastSaleNumber)
      lastCounter == parseInt(IF segment = <<>> THEN <<"0">> ELSE segment)
      counter == IF lastSaleNumber \in {Null, <<>>} THEN 1
                 ELSE IF lastCounter = NaN THEN 1
                 ELSE lastCounter + 1
  IN SalePrefix \o dateKey \o <<"-">> \o padStart(toString(counter), 4, "0")

\* recordSale, lines 284-312: the latest sale_number of the day is read and the
\* header row goes in under the number built from it
NextSaleNumber(sn) ==
  [sn EXCEPT !.given = sn.last,
             !.last = buildSaleNumber(sn.dateKey, IF sn.last = <<>> THEN Null ELSE sn.last)]

\* ---------------------------------------------------------------- stock triggers
\* lot ids are uuids; the model numbers the lots in insertion order
NextId(L) == Len(L) + 1

\* AFTER INSERT ON products
record_initial_inventory_purchase(L, p, stock, cost, created_at) ==
  IF stock > 0 THEN Append(L, NewLot(NextId(L), p, stock, cost, created_at)) ELSE L

\* faulty variant: the received units are added to the product's newest lot
record_inventory_purchase_topup(L, p, oldStock, newStock, cost, t) ==
  IF newStock <= oldStock THEN L
  ELSE IF LotsOf(L, p) = {}
    THEN Append(L, NewLot(NextId(L), p, newStock - oldStock, cost, t))
  ELSE LET i == CHOOSE k \in LotsOf(L, p) : \A j \in LotsOf(L, p) : j <= k
       IN [L EXCEPT ![i].quantity = @ + (newStock - oldStock),
                    ![i].remaining_quantity = @ + (newStock - oldStock),
                    ![i].unit_cost = cost]

\* AFTER UPDATE ON products WHEN (NEW.stock > OLD.stock)
record_inventory_purchase(L, p, oldStock, newStock, cost, t) ==
  IF newStock > oldStock
    THEN Append(L, NewLot(NextId(L), p, newStock - oldStock, cost, t))
    ELSE L

\* ---------------------------------------------------------------- sale trigger
\* faulty variant: the new stock is worked out from the value read at the top
reduce_stock_stale(stock, v_product_stock, quantity) == v_product_stock - quantity

\* UPDATE products SET stock = stock - NEW.quantity: the statement computes from
\* the row's current stock, not from v_product_stock read at the top
reduce_stock(stock, v_product_stock, quantity) == stock - quantity

\* BEFORE INSERT ON sale_items FOR EACH ROW, followed by the row's own checks.
\* st: the statement's working state [products, lots, rows, err, line]; a
\* raise leaves in st what the function had written before it.
check_and_allocate_inventory(st, setting, item) ==
  LET p == item.product_id
      q == item.quantity
      v_product_stock == st.products[p].stock
      v_calculated_cost == calculate_sale_cost(st.lots, setting, p, q)
      alloc == allocate_inventory_on_sale(st.lots, setting, p, q)
      stock2 == reduce_stock(st.products[p].stock, v_product_stock, q)
      \* a negative quantity makes the UPDATE a stock increase, which fires
      \* record_purchase_on_stock_increase
      lots2 == record_inventory_purchase(alloc.lots, p, st.products[p].stock, stock2,
                                         st.products[p].cost, clock)
  IN IF ~st.products[p].exists THEN [st EXCEPT !.err = "Product not found"]
     ELSE IF v_product_stock < q THEN [st EXCEPT !.err = "Insufficient stock"]
     ELSE IF q = 0 THEN [st EXCEPT !.err = "division by zero"]
     ELSE IF alloc.err # "none" THEN [st EXCEPT !.lots = alloc.lots, !.err = alloc.err]
     ELSE IF ~ProductChecks(stock2)
       THEN [st EXCEPT !.lots = alloc.lots, !.err = "check constraint"]
     ELSE IF ~(q > 0 /\ RoundDiv(v_calculated_cost, q) >= 0)
       THEN [st EXCEPT !.lots = lots2, !.products[p].stock = stock2,
                       !.err = "check constraint"]
     ELSE [st EXCEPT !.products[p].stock = stock2,
                     !.lots = lots2,
                     !.rows = Append(st.rows, [product_id |-> p, quantity |-> q,
                                 cost_price |-> RoundDiv(v_calculated_cost, q)])]

\* the rows of one INSERT, in order, up to the first that raises
RECURSIVE InsertRows(_, _, _, _)
InsertRows(st, setting, items, k) ==
  IF k > Len(items) THEN st
  ELSE LET r == check_and_allocate_inventory(st, setting, items[k])
       IN IF r.err # "none" THEN [r EXCEPT !.line = k]
          ELSE InsertRows(r, setting, items, k + 1)

\* faulty variant: the rows written before a raise are kept
InsertSaleItemsNoUndo(st, setting, items) == InsertRows(st, setting, items, 1)

\* .insert(saleItems): one statement, so a raise on any row undoes all of it
InsertSaleItems(st, setting, items) ==
  LET r == InsertRows(st, setting, items, 1)
  IN IF r.err = "none" THEN r ELSE [st EXCEPT !.err = r.err, !.line = r.line]

Tables(P, L, rows) == [products |-> P, lots |-> L, rows |-> rows, err |-> "none", line |-> 0]

SaleQtys == 0..MaxSaleQty
SaleLines == [product_id : Products, quantity : SaleQtys]
SaleRequests == {<<a>> : a \in SaleLines} \cup {<<a, b>> : a \in SaleLines, b \in SaleLines}

\* the header row is inserted by its own request, then the lines by another
recordSale(items) ==
  LET st == InsertSaleItems(Tables(products, inventory_purchases, sale_items),
                            setting_value, items)
  IN /\ sales < MaxSales
     /\ Len(st.rows) <= MaxSaleItems
     /\ sales' = sales + 1
     /\ sale_number' = NextSaleNumber(sale_number)
     /\ products' = st.products
     /\ inventory_purchases' = st.lots
     /\ sale_items' = st.rows
     /\ last' = Answer("sale", st.err, st.line)
     /\ UNCHANGED <<uiVars, setting_value, clock, concVars>>

\* ---------------------------------------------------------------- sales history
\* faulty variant: the cost of a recorded line is worked out again on reading
getSalesRecosted(rows) ==
  [i \in 1..Len(rows) |->
     [productId |-> rows[i].product_id, quantity |-> rows[i].quantity,
      cost |-> RoundDiv(calculate_sale_cost(inventory_purchases, setting_value,
                                            rows[i].product_id, rows[i].quantity),
                        rows[i].quantity)]]

\* the lines of the recorded sales as getSales returns them
getSales(rows) ==
  [i \in 1..Len(rows) |->
     [productId |-> rows[i].product_id, quantity |-> rows[i].quantity,
      cost |-> rows[i].cost_price]]

\* ---------------------------------------------------------------- products
Tick(L, L2) == IF Len(L2) > Len(L) THEN clock + 1 ELSE clock

addProduct(p, cost, stock) ==
  /\ ~products[p].exists
  /\ Len(inventory_purchases) < MaxLots
  /\ products' = [products EXCEPT ![p] =
                    [exists |-> TRUE, stock |-> stock, cost |-> cost, is_active |-> TRUE]]
  /\ inventory_purchases' =
       record_initial_inventory_purchase(inventory_purchases, p, stock, cost, clock)
  /\ clock' = Tick(inventory_purchases, inventory_purchases')
  /\ last' = Answer("product", "none", 0)
  /\ UNCHANGED <<uiVars, setting_value, sale_items, sales, sale_number, concVars>>

\* the product's cost is owned by the surrounding application
SetProductCost(p, c) ==
  /\ products[p].exists
  /\ products[p].cost # c
  /\ products' = [products EXCEPT ![p].cost = c]
  /\ last' = Answer("cost", "none", 0)
  /\ UNCHANGED <<uiVars, inventory_purchases, setting_value, sale_items, sales, sale_number, clock, concVars>>

\* system_settings.setting_value is free text
SetCostingMethod(v) ==
  /\ setting_value # v
  /\ setting_value' = v
  /\ last' = Answer("policy", "none", 0)
  /\ UNCHANGED <<uiVars, products, inventory_purchases, sale_items, sales, sale_number, clock, concVars>>

\* faulty variant: the row is deleted and ON DELETE CASCADE takes its lots along
DeleteRowCascade(P, L, id) ==
  [products |-> [P EXCEPT ![id] = NoProduct],
   lots |-> SelectSeq(L, LAMBDA l : l.product_id # id)]

\* .update({ is_active: false }).eq('id', id): no trigger fires, stock is as it was
SetInactive(P, L, id) ==
  [products |-> [P EXCEPT ![id].is_active = FALSE], lots |-> L]

\* the product list offers the active products only
deleteProduct(id) ==
  LET r == SetInactive(products, inventory_purchases, id)
  IN /\ products[id].exists
     /\ products[id].is_active
     /\ products' = r.products
     /\ inventory_purchases' = r.lots
     /\ last' = Answer("delete", "none", 0)
     /\ UNCHANGED <<uiVars, setting_value, sale_items, sales, sale_number, clock, concVars>>

\* ---------------------------------------------------------------- restock
RestockQtys == 0..MaxRestock

\* the RPC, one transaction: its UPDATE fires record_purchase_on_stock_increase,
\* then the function inserts its own lot
add_product_stock(P, L, p, q, t) ==
  IF q <= 0 THEN [err |-> "Additional stock must be greater than zero",
                  products |-> P, lots |-> L]
  ELSE IF ~P[p].exists THEN [err |-> "Product not found", products |-> P, lots |-> L]
  ELSE LET P2 == [P EXCEPT ![p].stock = @ + q]
           L2 == record_inventory_purchase(L, p, P[p].stock, P2[p].stock, P2[p].cost, t)
           current_cost == P2[p].cost
       IN [err |-> "none", products |-> P2,
           lots |-> Append(L2, NewLot(NextId(L2), p, q, current_cost, t))]

\* the manual path of updateProductStock, its requests run back to back: fetch,
\* update (which fires the stock-increase trigger), insert of the lot, whose
\* error is logged and dropped
ManualFallback(P, L, p, q, t) ==
  IF ~P[p].exists THEN [err |-> "Failed to fetch product", products |-> P, lots |-> L]
  ELSE LET product == P[p]
           P2 == [P EXCEPT ![p].stock = product.stock + q]
           L2 == record_inventory_purchase(L, p, P[p].stock, P2[p].stock, P2[p].cost, t)
           lot == NewLot(NextId(L2), p, q, product.cost, t)
       IN IF ~ProductChecks(P2[p].stock)
            THEN [err |-> "Failed to update stock", products |-> P, lots |-> L]
            ELSE [err |-> "none", products |-> P2,
                  lots |-> IF LotChecks(lot) THEN Append(L2, lot) ELSE L2]

\* what the handler leaves behind and what it reports: the RPC's result, or
\* the manual path's when the RPC came back with an error of any kind
RestockOutcome(P, L, id, additionalStock, rpcUp, t) ==
  LET rpc == add_product_stock(P, L, id, additionalStock, t)
  IN IF rpcUp /\ rpc.err = "none" THEN rpc
     ELSE ManualFallback(P, L, id, additionalStock, t)

updateProductStock(id, additionalStock, rpcUp) ==
  LET r == RestockOutcome(products, inventory_purchases, id, additionalStock, rpcUp, clock)
  IN /\ Len(r.lots) <= MaxLots
     /\ products' = r.products
     /\ inventory_purchases' = r.lots
     /\ clock' = Tick(inventory_purchases, r.lots)
     /\ last' = Answer("restock", r.err, 0)
     /\ UNCHANGED <<uiVars, setting_value, sale_items, sales, sale_number, concVars>>

\* ---------------------------------------------------------------- valuation
\* the report reads its method from a row of its own, inventory_valuation_method,
\* which the script inserts as 'FIFO'; no request in the sources writes it
ValuationSetting == "FIFO"

get_inventory_valuation_method(v) == IF v = NoSetting THEN "FIFO" ELSE v

\* SUM(ip.quantity) OVER (PARTITION BY p.id ORDER BY ip.purchased_at ASC|DESC):
\* the running total up to and including the rows of the same purchased_at
CumulativeQty(L, i, asc) ==
  SumSeq([j \in 1..Len(L) |->
            IF /\ L[j].product_id = L[i].product_id
               /\ IF asc THEN L[j].purchased_at <= L[i].purchased_at
                         ELSE L[j].purchased_at >= L[i].purchased_at
              THEN L[j].quantity ELSE 0],
         Len(L))

\* allocated_costs.total_cost: the first current_qty units of the purchases in
\* that order, at their unit costs
RankedCost(L, p, current_qty, asc) ==
  SumSeq([i \in 1..Len(L) |->
            IF L[i].product_id # p THEN 0
            ELSE LET cumulative_qty == CumulativeQty(L, i, asc)
                 IN IF cumulative_qty <= current_qty THEN L[i].unit_cost * L[i].quantity
                    ELSE IF cumulative_qty - L[i].quantity < current_qty
                      THEN L[i].unit_cost * (current_qty - (cumulative_qty - L[i].quantity))
                    ELSE 0],
         Len(L))

PurchasedCost(L, p) ==
  SumSeq([i \in 1..Len(L) |->
            IF L[i].product_id = p THEN L[i].unit_cost * L[i].quantity ELSE 0], Len(L))

ValueRow(p, stock, cost, total, method) ==
  [product_id |-> p, current_stock |-> stock, valuation_cost |-> cost,
   total_value |-> total, method_used |-> method]

\* the rows the function returns: one for each active product in stock, and
\* under FIFO and LIFO only if it has a purchase
calculate_inventory_value(P, L, setting) ==
  LET v_method == get_inventory_valuation_method(setting)
      listed == {p \in Products : P[p].exists /\ P[p].is_active /\ P[p].stock > 0}
      ranked(p, asc) ==
        LET total_cost == RankedCost(L, p, P[p].stock, asc)
        IN ValueRow(p, P[p].stock, RoundDiv(total_cost, P[p].stock), total_cost, v_method)
      average(p) ==
        IF LotsOf(L, p) = {}
          THEN ValueRow(p, P[p].stock, P[p].cost, P[p].stock * P[p].cost, "AVERAGE")
          ELSE ValueRow(p, P[p].stock,
                        RoundDiv(PurchasedCost(L, p), Received(L, p)),
                        RoundDiv(P[p].stock * PurchasedCost(L, p), Received(L, p)),
                        "AVERAGE")
  IN IF v_method = "FIFO" THEN {ranked(p, TRUE) : p \in {r \in listed : LotsOf(L, r) # {}}}
     ELSE IF v_method = "LIFO"
       THEN {ranked(p, FALSE) : p \in {r \in listed : LotsOf(L, r) # {}}}
     ELSE {average(p) : p \in listed}

\* faulty variant: the report writes the value it found back as the product's cost
ValuationWritesCost(P, L, setting) ==
  [products |-> [p \in Products |->
                   LET rows == {r \in calculate_inventory_value(P, L, setting) :
                                   r.product_id = p}
                   IN IF rows = {} THEN P[p]
                      ELSE [P[p] EXCEPT !.cost = (CHOOSE r \in rows : TRUE).valuation_cost]],
   lots |-> L]

\* the tables after the function has run: it is made of SELECTs only
ValuationLeaves(P, L, setting) == [products |-> P, lots |-> L]

\* SELECT * FROM calculate_inventory_value(), as the inventory_value_report view does
InventoryValueReport ==
  LET after == ValuationLeaves(products, inventory_purchases, ValuationSetting)
  IN /\ products' = after.products
     /\ inventory_purchases' = after.lots
     /\ last' = Answer("valuation", "none", 0)
     /\ UNCHANGED <<uiVars, setting_value, sale_items, sales, sale_number, clock, concVars>>

\* ---------------------------------------------------------------- specification
\* When the migration ran the shop may have held a product archived with stock
\* left: its section 8 gives lots to active products only.
ExistingProducts ==
  {[p \in Products |-> NoProduct]} \cup
  {[p \in Products |-> IF p = 1
       THEN [exists |-> TRUE, stock |-> s, cost |-> c, is_active |-> FALSE]
       ELSE NoProduct] : s \in 1..MaxRestock, c \in Costs}

MigrateExisting(P) ==
  LET withLot == {p \in Products : P[p].exists /\ P[p].stock > 0 /\ P[p].is_active}
      order == SortIdx([p \in Products |-> [purchased_at |-> p, id |-> p]], withLot, TRUE)
  IN [k \in 1..Len(order) |->
        NewLot(k, order[k], P[order[k]].stock, P[order[k]].cost, 0)]

Init ==
  /\ products \in ExistingProducts
  /\ inventory_purchases = MigrateExisting(products)
  /\ setting_value = "FIFO"
  /\ sale_items = <<>>
  /\ sales = 0
  /\ sale_number = [dateKey |-> Today, last |-> Null, given |-> Null]
  /\ clock = 1
  /\ last = Answer("none", "none", 0)
  /\ tx = [t \in Sessions |-> TxIdle]
  /\ row_lock = <<>>
  /\ product_lock = 0
  /\ stock0 = 0
  /\ lockCount = 0
  /\ calls = [c \in Calls |-> "idle"]

Next ==
  \/ \E p \in Products, c \in Costs, s \in 0..MaxRestock : addProduct(p, c, s)
  \/ \E p \in Products, c \in Costs : SetProductCost(p, c)
  \/ \E v \in SettingValues \cup {NoSetting} : SetCostingMethod(v)
  \/ \E p \in Products, q \in RestockQtys, up \in BOOLEAN : updateProductStock(p, q, up)
  \/ \E items \in SaleRequests : recordSale(items)
  \/ InventoryValueReport
  \/ \E p \in Products : deleteProduct(p)

Spec == Init /\ [][Next]_vars

\* ---------------------------------------------------------------- concurrent sales
\* Two sessions each insert one sale line of product 1. Every request is its
\* own READ COMMITTED transaction: a statement sees what is committed when it
\* starts, a row lock is held to the end of the transaction, and a statement
\* that meets a locked row waits and then works on the row's latest version.
ConcProduct == CHOOSE p \in Products : TRUE

Locked(t) == [i \in 1..Len(row_lock) |-> IF row_lock[i] = t THEN 0 ELSE row_lock[i]]

\* ROLLBACK on a raise: the locks go, the writes were never visible
Rollback(t, e) ==
  /\ tx' = [tx EXCEPT ![t].pc = "done", ![t].err = e]
  /\ row_lock' = Locked(t)
  /\ product_lock' = IF product_lock = t THEN 0 ELSE product_lock
  /\ UNCHANGED <<products, inventory_purchases, sale_items>>

\* recordSale up to the insert of the lines: the header row goes in first
BeginSale(t, q) ==
  /\ tx[t].pc = "idle"
  /\ sales' = sales + 1
  /\ sale_number' = NextSaleNumber(sale_number)
  /\ tx' = [tx EXCEPT ![t].pc = "check", ![t].q = q]
  /\ UNCHANGED <<uiVars, products, inventory_purchases, setting_value, sale_items, clock, last,
                 row_lock, product_lock, stock0>>

\* SELECT stock INTO v_product_stock ... IF v_product_stock < NEW.quantity
StockCheck(t) ==
  /\ tx[t].pc = "check"
  /\ IF ~products[ConcProduct].exists THEN Rollback(t, "Product not found")
     ELSE IF products[ConcProduct].stock < tx[t].q THEN Rollback(t, "Insufficient stock")
     ELSE /\ tx' = [tx EXCEPT ![t].pc = "cost",
                              ![t].v_product_stock = products[ConcProduct].stock]
          /\ UNCHANGED <<products, inventory_purchases, sale_items, row_lock, product_lock>>
  /\ UNCHANGED <<uiVars, setting_value, sales, sale_number, clock, last, stock0>>

\* v_calculated_cost := calculate_sale_cost(...); NEW.cost_price := it / quantity
CostStep(t) ==
  /\ tx[t].pc = "cost"
  /\ IF tx[t].q = 0 THEN Rollback(t, "division by zero")
     ELSE /\ tx' = [tx EXCEPT ![t].pc = "open",
                      ![t].cost_price =
                         RoundDiv(calculate_sale_cost(inventory_purchases, setting_value,
                                                      ConcProduct, tx[t].q), tx[t].q)]
          /\ UNCHANGED <<products, inventory_purchases, sale_items, row_lock, product_lock>>
  /\ UNCHANGED <<uiVars, setting_value, sales, sale_number, clock, last, stock0>>

\* allocate_inventory_on_sale reads the method and opens its FOR UPDATE query
OpenCursor(t) ==
  /\ tx[t].pc = "open"
  /\ tx' = [tx EXCEPT ![t].pc = "fetch",
                      ![t].order = AllocOrder(inventory_purchases, setting_value, ConcProduct)]
  /\ UNCHANGED <<uiVars, seqVars, row_lock, product_lock, stock0>>

\* the query hands over its next row: it takes the row lock, waiting while the
\* other session holds it, and drops the row if its latest version no longer
\* has remaining_quantity > 0. PL/pgSQL reads the first rows of a FOR query
\* ahead of the loop body, so every lot of these short ledgers is locked before
\* the first UPDATE of the walk.
FetchRow(t) ==
  /\ tx[t].pc = "fetch"
  /\ tx[t].k < Len(tx[t].order)
  /\ LET i == tx[t].order[tx[t].k + 1]
     IN /\ row_lock[i] \in {0, t}
        /\ row_lock' = [row_lock EXCEPT ![i] = t]
        /\ tx' = [tx EXCEPT ![t].k = @ + 1,
                            ![t].got = IF inventory_purchases[i].remaining_quantity > 0
                                         THEN Append(@, i) ELSE @]
  /\ UNCHANGED <<uiVars, seqVars, product_lock, stock0>>

\* the loop body over the rows handed over, then the check after the loop
WalkLots(t) ==
  /\ tx[t].pc = "fetch"
  /\ tx[t].k = Len(tx[t].order)
  /\ LET r == AllocResult(AllocLoop(inventory_purchases, tx[t].got, 1, tx[t].q))
     IN IF r.err # "none" THEN Rollback(t, r.err)
        ELSE /\ tx' = [tx EXCEPT ![t].pc = "stock", ![t].lots = r.lots]
             /\ UNCHANGED <<products, inventory_purchases, sale_items, row_lock, product_lock>>
  /\ UNCHANGED <<uiVars, setting_value, sales, sale_number, clock, last, stock0>>

\* UPDATE products SET stock = stock - NEW.quantity, under the product's row
\* lock and CHECK (stock >= 0)
UpdateStock(t) ==
  /\ tx[t].pc = "stock"
  /\ product_lock \in {0, t}
  /\ LET stock2 == reduce_stock(products[ConcProduct].stock, tx[t].v_product_stock, tx[t].q)
     IN IF ~ProductChecks(stock2) THEN Rollback(t, "check constraint")
        ELSE /\ tx' = [tx EXCEPT ![t].pc = "commit", ![t].stock = stock2]
             /\ product_lock' = t
             /\ UNCHANGED <<products, inventory_purchases, sale_items, row_lock>>
  /\ UNCHANGED <<uiVars, setting_value, sales, sale_number, clock, last, stock0>>

\* the row goes in and the transaction commits
CommitSale(t) ==
  /\ tx[t].pc = "commit"
  /\ inventory_purchases' =
       [i \in 1..Len(inventory_purchases) |->
          IF row_lock[i] = t THEN tx[t].lots[i] ELSE inventory_purchases[i]]
  /\ products' = [products EXCEPT ![ConcProduct].stock = tx[t].stock]
  /\ sale_items' = Append(sale_items, [product_id |-> ConcProduct, quantity |-> tx[t].q,
                                       cost_price |-> tx[t].cost_price])
  /\ tx' = [tx EXCEPT ![t].pc = "done"]
  /\ row_lock' = Locked(t)
  /\ product_lock' = 0
  /\ UNCHANGED <<uiVars, setting_value, sales, sale_number, clock, last, stock0>>

WaitsFor(t, u) ==
  /\ tx[t].pc = "fetch"
  /\ tx[t].k < Len(tx[t].order)
  /\ row_lock[tx[t].order[tx[t].k + 1]] = u

\* the two sessions wait for each other's lot: the server ends one of them
DeadlockDetected(t) ==
  /\ \E u \in Sessions \ {t} : WaitsFor(t, u) /\ WaitsFor(u, t)
  /\ Rollback(t, "deadlock detected")
  /\ UNCHANGED <<uiVars, setting_value, sales, sale_number, clock, last, stock0>>

\* the shop before the two sales: a product created with some stock, or one
\* archived with stock before the migration, perhaps restocked once since at
\* another cost
ConcStart ==
  LET created(s) ==
        [products |-> [p \in Products |->
                         [exists |-> TRUE, stock |-> s, cost |-> 1000, is_active |-> TRUE]],
         lots |-> record_initial_inventory_purchase(<<>>, ConcProduct, s, 1000, 1)]
      archived(P) == [products |-> P, lots |-> MigrateExisting(P)]
      restocked(c, q) ==
        LET r == add_product_stock([c.products EXCEPT ![ConcProduct].cost = 1200],
                                   c.lots, ConcProduct, q, 2)
        IN [products |-> r.products, lots |-> r.lots]
      start == {created(s) : s \in 0..MaxRestock}
                 \cup {archived(P) : P \in {Q \in ExistingProducts : Q[ConcProduct].exists}}
  IN {c \in start : c.products[ConcProduct].stock > 0}
       \cup {restocked(c, q) : c \in start, q \in 1..MaxRestock}

InitConc ==
  /\ \E c \in ConcStart :
        /\ products = c.products
        /\ inventory_purchases = c.lots
  /\ setting_value \in {"FIFO", "LIFO"}
  /\ sale_items = <<>>
  /\ sales = 0
  /\ sale_number = [dateKey |-> Today, last |-> Null, given |-> Null]
  /\ clock = 3
  /\ last = Answer("none", "none", 0)
  /\ tx = [t \in Sessions |-> TxIdle]
  /\ row_lock = [i \in 1..Len(inventory_purchases) |-> 0]
  /\ product_lock = 0
  /\ stock0 = products[ConcProduct].stock
  /\ lockCount = 0
  /\ calls = [c \in Calls |-> "idle"]

NextConc ==
  \/ \E t \in Sessions, q \in SaleQtys : BeginSale(t, q)
  \/ \E t \in Sessions : StockCheck(t)
  \/ \E t \in Sessions : CostStep(t)
  \/ \E t \in Sessions : OpenCursor(t)
  \/ \E t \in Sessions : FetchRow(t)
  \/ \E t \in Sessions : WalkLots(t)
  \/ \E t \in Sessions : UpdateStock(t)
  \/ \E t \in Sessions : CommitSale(t)
  \/ \E t \in Sessions : DeadlockDetected(t)
  \/ \E v \in {"FIFO", "LIFO"} : SetCostingMethod(v)

SpecConc == InitConc /\ [][NextConc]_vars

\* ---------------------------------------------------------------- numbering alone
\* buildSaleNumber over date keys and last numbers of any shape: none, empty,
\* well formed for this or another day, or ending in any short segment
DateKeys == {Today, <<"0", "1", "0", "1", "2", "0", "2", "7">>}
MaxSegLen == 2
SegChars == {"0", "1", "9", "Z"}
Segments ==
  UNION {[1..n -> SegChars] : n \in 0..MaxSegLen}
    \cup {<<"0", "0", "1", "2">>, <<"0", "0", "9", "9">>, <<"9", "9", "9", "9">>,
          <<"1", "Z", "Z", "Z">>, <<"Z", "Z", "Z">>}
LastNumbers ==
  {Null, <<>>} \cup Segments
    \cup {SalePrefix \o d \o <<"-">> \o g : d \in DateKeys, g \in Segments}

InitSaleNumber ==
  /\ products = [p \in Products |-> NoProduct]
  /\ inventory_purchases = <<>>
  /\ setting_value = "FIFO"
  /\ sale_items = <<>>
  /\ sales = 0
  /\ sale_number \in [dateKey : DateKeys, last : LastNumbers, given : {Null}]
  /\ clock = 1
  /\ last = Answer("none", "none", 0)
  /\ tx = [t \in Sessions |-> TxIdle]
  /\ row_lock = <<>>
  /\ product_lock = 0
  /\ stock0 = 0
  /\ lockCount = 0
  /\ calls = [c \in Calls |-> "idle"]

\* the header row of the next sale goes in under the number built
InsertSaleHeader ==
  /\ sales < MaxSales
  /\ sales' = sales + 1
  /\ sale_number' = NextSaleNumber(sale_number)
  /\ UNCHANGED <<uiVars, products, inventory_purchases, setting_value, sale_items, clock, last,
                 concVars>>

\* the date changes: no sale_number of the new day exists yet
NewDay(d) ==
  /\ d # sale_number.dateKey
  /\ sale_number' = [dateKey |-> d, last |-> Null, given |-> Null]
  /\ UNCHANGED <<uiVars, products, inventory_purchases, setting_value, sale_items, sales, clock,
                 last, concVars>>

NextSaleNumbers ==
  \/ InsertSaleHeader
  \/ \E d \in DateKeys : NewDay(d)

SpecSaleNumber == InitSaleNumber /\ [][NextSaleNumbers]_vars

\* ---------------------------------------------------------------- UI lock
\* runWithLock calls of the components, each wrapping a request such as the
\* recordSale of handleCheckout. A call is "running" until the promise of fn
\* settles, then "resolved" or "rejected" until its finally block has run.
InFlight == {c \in Calls : calls[c] \in {"running", "resolved", "rejected"}}

\* isLocked: lockCount > 0
isLocked == lockCount > 0

\* faulty variant: the count is given back after the await, without finally
AfterReturnOnly(count, outcome) ==
  IF outcome = "rejected" THEN count ELSE IF count - 1 > 0 THEN count - 1 ELSE 0

\* finally { setLockCount(count => Math.max(0, count - 1)) }
AfterFinally(count, outcome) == IF count - 1 > 0 THEN count - 1 ELSE 0

\* setLockCount(count => count + 1), then fn() is called
runWithLock(c) ==
  /\ calls[c] \in {"idle", "returned", "thrown"}
  /\ lockCount' = lockCount + 1
  /\ calls' = [calls EXCEPT ![c] = "running"]
  /\ UNCHANGED <<seqVars, concVars>>

\* the promise of fn settles: the request went through, or it threw
fnSettles(c, ok) ==
  /\ calls[c] = "running"
  /\ calls' = [calls EXCEPT ![c] = IF ok THEN "resolved" ELSE "rejected"]
  /\ UNCHANGED <<lockCount, seqVars, concVars>>

\* the await resumes: finally runs, then the value is returned or the error rethrown
runWithLockFinally(c) ==
  /\ calls[c] \in {"resolved", "rejected"}
  /\ lockCount' = AfterFinally(lockCount, calls[c])
  /\ calls' = [calls EXCEPT ![c] = IF calls[c] = "resolved" THEN "returned" ELSE "thrown"]
  /\ UNCHANGED <<seqVars, concVars>>

InitUiLock ==
  /\ products = [p \in Products |-> NoProduct]
  /\ inventory_purchases = <<>>
  /\ setting_value = "FIFO"
  /\ sale_items = <<>>
  /\ sales = 0
  /\ sale_number = [dateKey |-> Today, last |-> Null, given |-> Null]
  /\ clock = 1
  /\ last = Answer("none", "none", 0)
  /\ tx = [t \in Sessions |-> TxIdle]
  /\ row_lock = <<>>
  /\ product_lock = 0
  /\ stock0 = 0
  /\ lockCount = 0
  /\ calls = [c \in Calls |-> "idle"]

NextUiLock ==
  \/ \E c \in Calls : runWithLock(c)
  \/ \E c \in Calls, ok \in BOOLEAN : fnSettles(c, ok)
  \/ \E c \in Calls : runWithLockFinally(c)

SpecUiLock == InitUiLock /\ [][NextUiLock]_vars

\* ================================================================ properties
\* what one step did, read off the tables
IsSale == sales' = sales + 1
NewRows == SubSeq(sale_items', Len(sale_items) + 1, Len(sale_items'))
SoldQty(rows, p) ==
  SumSeq([i \in 1..Len(rows) |-> IF rows[i].product_id = p THEN rows[i].quantity ELSE 0],
         Len(rows))
Consumed(i) ==
  inventory_purchases[i].remaining_quantity - inventory_purchases'[i].remaining_quantity
ConsumedCost(p) ==
  SumSeq([i \in 1..Len(inventory_purchases) |->
            IF inventory_purchases[i].product_id = p
              THEN Consumed(i) * inventory_purchases[i].unit_cost ELSE 0],
         Len(inventory_purchases))
Policy == get_inventory_costing_method(setting_value)
OneLine(p, q) == <<[product_id |-> p, quantity |-> q]>>

\* C1 (as claimed): between requests the remaining quantities of a product's
\* lots add up to products.stock. Stated for the products on sale; the restock
\* handler breaks it.
LotsMatchStock ==
  \A p \in Products : products[p].exists /\ products[p].is_active =>
     SumRemaining(inventory_purchases, p) = products[p].stock

\* C3: a step either records sale lines and takes exactly their quantities from
\* the lots and from products.stock, or records none and takes nothing; a sale
\* that raised, on any lot of the walk or any line, leaves all three as they were.
SaleAllOrNothingStep ==
  /\ Len(sale_items') >= Len(sale_items)
  /\ SubSeq(sale_items', 1, Len(sale_items)) = sale_items
  /\ \A k \in 1..Len(NewRows) : NewRows[k].quantity > 0
  /\ Len(inventory_purchases') >= Len(inventory_purchases)
  /\ IF Len(sale_items') > Len(sale_items)
       THEN /\ IsSale /\ last'.err = "none"
            /\ Len(inventory_purchases') = Len(inventory_purchases)
            /\ \A i \in 1..Len(inventory_purchases) : Consumed(i) >= 0
            /\ \A p \in Products :
                 /\ SumRemaining(inventory_purchases, p)
                      - SumRemaining(inventory_purchases', p) = SoldQty(NewRows, p)
                 /\ products[p].stock - products'[p].stock = SoldQty(NewRows, p)
       ELSE /\ \A i \in 1..Len(inventory_purchases) :
                 inventory_purchases'[i] = inventory_purchases[i]
            /\ \A p \in Products : products'[p].stock >= products[p].stock
  /\ (IsSale /\ last'.err # "none") =>
       /\ inventory_purchases' = inventory_purchases
       /\ products' = products
       /\ sale_items' = sale_items

\* C3: every step is all-or-nothing in the sense above
SaleAllOrNothing == [][SaleAllOrNothingStep]_vars

\* a two-line sale whose second line ran out of lots in the middle of its walk
SaleFailedMidWalk ==
  /\ last = Answer("sale", "Insufficient inventory to allocate", 2)
  /\ \E p \in Products : SumRemaining(inventory_purchases, p) > 0

\* the worked example: 5 @ 10.00 received at 1, 5 @ 12.00 received at 2, 8 sold
ExampleLots == <<NewLot(1, 1, 5, 1000, 1), NewLot(2, 1, 5, 1200, 2)>>
ExampleTables ==
  Tables([p \in Products |->
            [exists |-> TRUE, stock |-> 10, cost |-> 1200, is_active |-> TRUE]],
         ExampleLots, <<>>)
ExampleSale(setting) == InsertSaleItems(ExampleTables, setting, OneLine(1, 8))

\* the walk took from the lots in order: at most the last lot touched is left
\* part full, and nothing before a touched lot is left
WalkedInOrder(asc) ==
  \A i, j \in 1..Len(inventory_purchases) :
     LET a == inventory_purchases[i]
         b == inventory_purchases[j]
         first == IF asc THEN a.purchased_at < b.purchased_at
                         ELSE a.purchased_at > b.purchased_at
     IN (a.product_id = b.product_id /\ first /\ Consumed(j) > 0) =>
           inventory_purchases'[i].remaining_quantity = 0

CostOfConsumed ==
  Len(NewRows) = 1 =>
     LET p == NewRows[1].product_id
         q == NewRows[1].quantity
     IN /\ SumRemaining(inventory_purchases, p) - SumRemaining(inventory_purchases', p) = q
        /\ NewRows[1].cost_price = RoundDiv(ConsumedCost(p), q)

\* C4: a successful sale under FIFO leaves no remaining quantity in any lot
\* received before a lot it took from, never takes more than a lot holds, and
\* costs the sum of taken * unit_cost; the example gives 86.00, 10.75 a unit.
FifoStep ==
  (IsSale /\ last'.err = "none" /\ Policy = "FIFO") =>
     /\ WalkedInOrder(TRUE)
     /\ \A i \in 1..Len(inventory_purchases) :
           Consumed(i) \in 0..inventory_purchases[i].remaining_quantity
     /\ CostOfConsumed

FifoExample ==
  /\ calculate_sale_cost(ExampleLots, "FIFO", 1, 8) = 8600
  /\ LET r == ExampleSale("FIFO")
     IN /\ r.err = "none"
        /\ r.lots[1].remaining_quantity = 0
        /\ r.lots[2].remaining_quantity = 2
        /\ r.rows[1].cost_price = 1075

\* C4: FIFO allocation and cost, on every sale step and on the worked example
FifoAllocation == [][FifoExample /\ FifoStep]_vars

\* a FIFO sale just drained an older lot and took part of a newer, dearer or cheaper one
FifoSaleAcrossLots ==
  /\ last = Answer("sale", "none", 0)
  /\ Policy = "FIFO"
  /\ \E i, j \in 1..Len(inventory_purchases) :
        LET a == inventory_purchases[i]
            b == inventory_purchases[j]
        IN /\ a.product_id = b.product_id
           /\ a.purchased_at < b.purchased_at
           /\ a.unit_cost # b.unit_cost
           /\ a.remaining_quantity = 0
           /\ b.remaining_quantity \in 1..(b.quantity - 1)

\* C5: a successful sale under LIFO leaves no remaining quantity in any lot
\* received after a lot it took from, never takes more than a lot holds, and
\* costs the sum of taken * unit_cost; the example gives 90.00, 11.25 a unit.
LifoStep ==
  (IsSale /\ last'.err = "none" /\ Policy = "LIFO") =>
     /\ WalkedInOrder(FALSE)
     /\ \A i \in 1..Len(inventory_purchases) :
           Consumed(i) \in 0..inventory_purchases[i].remaining_quantity
     /\ CostOfConsumed

LifoExample ==
  /\ calculate_sale_cost(ExampleLots, "LIFO", 1, 8) = 9000
  /\ LET r == ExampleSale("LIFO")
     IN /\ r.err = "none"
        /\ r.lots[2].remaining_quantity = 0
        /\ r.lots[1].remaining_quantity = 2
        /\ r.rows[1].cost_price = 1125

\* C5: LIFO allocation and cost, on every sale step and on the worked example
LifoAllocation == [][LifoExample /\ LifoStep]_vars

\* a LIFO sale just drained a newer lot and took part of an older one of another cost
LifoSaleAcrossLots ==
  /\ last = Answer("sale", "none", 0)
  /\ Policy = "LIFO"
  /\ \E i, j \in 1..Len(inventory_purchases) :
        LET a == inventory_purchases[i]
            b == inventory_purchases[j]
        IN /\ a.product_id = b.product_id
           /\ a.purchased_at < b.purchased_at
           /\ a.unit_cost # b.unit_cost
           /\ b.remaining_quantity = 0
           /\ a.remaining_quantity \in 1..(a.quantity - 1)

LotValue(L, p) ==
  SumSeq([i \in 1..Len(L) |->
            IF L[i].product_id = p THEN L[i].remaining_quantity * L[i].unit_cost ELSE 0],
         Len(L))

\* C6 (as claimed): under AVERAGE the cost of q units is
\* sum(remaining * unit_cost) / sum(remaining) * q rounded once, after the
\* multiplication.
AverageRoundedOnce ==
  Policy = "AVERAGE" =>
     \A p \in Products, q \in 1..MaxSaleQty :
        LET units == SumRemaining(inventory_purchases, p)
        IN units > 0 =>
             calculate_sale_cost(inventory_purchases, setting_value, p, q)
               = RoundDiv(LotValue(inventory_purchases, p) * q, units)

\* C7 (as claimed): selling exactly what a product's lots hold succeeds under
\* each policy and leaves every lot of the product and products.stock at 0.
ExactDepletionSucceeds ==
  \A p \in Products, v \in {"FIFO", "LIFO", "AVERAGE"} :
     LET total == SumRemaining(inventory_purchases, p)
         r == InsertSaleItems(Tables(products, inventory_purchases, sale_items),
                              v, OneLine(p, total))
     IN (products[p].exists /\ total > 0) =>
          /\ r.err = "none"
          /\ \A i \in LotsOf(r.lots, p) : r.lots[i].remaining_quantity = 0
          /\ r.products[p].stock = 0

\* C8: asking for more than a product's lots hold, whether or not
\* products.stock is large enough, raises an insufficient-inventory error and
\* leaves the lots (none added, none changed), the stock and the sale lines as
\* they were, so that the same request meets the same state again.
InsufficientErrors == {"Insufficient stock", "Insufficient inventory to allocate"}

ShortLotsRejected ==
  \A p \in Products, q \in 1..(MaxSaleQty + 1) :
     LET before == Tables(products, inventory_purchases, sale_items)
         r == InsertSaleItems(before, setting_value, OneLine(p, q))
     IN (products[p].exists /\ SumRemaining(inventory_purchases, p) < q) =>
          /\ r.err \in InsufficientErrors
          /\ r.lots = inventory_purchases
          /\ r.products = products
          /\ r.rows = sale_items
          /\ InsertSaleItems([r EXCEPT !.err = "none", !.line = 0],
                             setting_value, OneLine(p, q)) = r

\* the stock counter covered a sale that the lots could not
SaleRejectedOnDrift ==
  /\ last = Answer("sale", "Insufficient inventory to allocate", 1)
  /\ \E p \in Products :
        /\ products[p].stock > SumRemaining(inventory_purchases, p)
        /\ SumRemaining(inventory_purchases, p) > 0

\* C9: no step changes a recorded sale line as read back, a step that changes
\* the costing method changes no sale line and no lot, and a sale is costed by
\* the method stored when it runs.
NotRetroactiveStep ==
  /\ \A i \in 1..Len(sale_items) :
        /\ Len(sale_items') >= i
        /\ getSales(sale_items)'[i] = getSales(sale_items)[i]
  /\ (setting_value' # setting_value) =>
        /\ sale_items' = sale_items
        /\ inventory_purchases' = inventory_purchases
  /\ (IsSale /\ Len(NewRows) = 1) =>
        LET row == getSales(sale_items)'[Len(sale_items')]
        IN row.cost = RoundDiv(calculate_sale_cost(inventory_purchases, setting_value,
                                                   row.productId, row.quantity),
                               row.quantity)

\* C9: no step is retroactive in the sense above
PolicyChangeNotRetroactive == [][NotRetroactiveStep]_vars

\* the method was just changed with a sale on record and lots of two costs left
PolicyChangedAfterSale ==
  /\ last.op = "policy"
  /\ Len(sale_items) >= 1
  /\ \E i, j \in 1..Len(inventory_purchases) :
        /\ inventory_purchases[i].unit_cost # inventory_purchases[j].unit_cost
        /\ inventory_purchases[i].remaining_quantity > 0
        /\ inventory_purchases[j].remaining_quantity > 0

\* C10 (as claimed): with a stored method that is none of FIFO, LIFO, AVERAGE
\* no sale goes through and no lot changes.
UnknownPolicyStep ==
  (IsSale /\ Policy \notin {"FIFO", "LIFO", "AVERAGE"}) =>
     /\ last'.err # "none"
     /\ inventory_purchases' = inventory_purchases

\* C10 (as claimed): every sale step under an unknown method fails closed
UnknownPolicyFailsClosed == [][UnknownPolicyStep]_vars

\* ---------------------------------------------------------------- two sales at once
BothDone == \A t \in Sessions : tx[t].pc = "done"
Committed == {t \in Sessions : tx[t].pc = "done" /\ tx[t].err = "none"}
\* every lot is full before the two sales
TakenFromLots == Received(inventory_purchases, ConcProduct)
                   - SumRemaining(inventory_purchases, ConcProduct)
Asked == tx[1].q + tx[2].q

\* what the lots and the counter show is what the committed sales sold
NoDoubleAllocation ==
  /\ TakenFromLots = SoldQty(sale_items, ConcProduct)
  /\ \A i \in 1..Len(inventory_purchases) : inventory_purchases[i].remaining_quantity >= 0
  /\ Len(sale_items) = Cardinality({t \in Sessions : tx[t].pc = "done" /\ tx[t].err = "none"})
  /\ products[ConcProduct].stock = stock0 - SoldQty(sale_items, ConcProduct)

NonPositiveQtys == -1..0

\* C11 (as claimed): an allocation of a quantity <= 0 raises an error and
\* leaves every lot as it was; it never returns normally and never puts units
\* back into a lot.
NonPositiveAllocationRejected ==
  \A p \in Products, q \in NonPositiveQtys :
     LET r == allocate_inventory_on_sale(inventory_purchases, setting_value, p, q)
     IN /\ r.err # "none"
        /\ \A i \in 1..Len(inventory_purchases) :
              r.lots[i].remaining_quantity <= inventory_purchases[i].remaining_quantity

\* ---------------------------------------------------------------- recorded unit cost
\* C12 (as claimed): the cost_price recorded for a sale line is the line's
\* total cost under the method in force divided by its quantity, so that
\* cost_price * quantity gives the total cost back.
StoredCostReproducesTotal ==
  \A p \in Products, q \in 1..MaxSaleQty :
     LET r == InsertSaleItems(Tables(products, inventory_purchases, <<>>),
                              setting_value, OneLine(p, q))
     IN r.err = "none" =>
          r.rows[1].cost_price * q
            = calculate_sale_cost(inventory_purchases, setting_value, p, q)

\* C13 (as claimed): a restock of a quantity <= 0, or of a product that does
\* not exist, ends in an error and leaves products and the lots as they were,
\* through the RPC alone and through updateProductStock with the RPC up or down.
InvalidRestockQtys == -1..0

InvalidRestockRejected ==
  \A p \in Products, q \in InvalidRestockQtys \cup RestockQtys, rpcUp \in BOOLEAN :
     LET rpc == add_product_stock(products, inventory_purchases, p, q, clock)
         r == RestockOutcome(products, inventory_purchases, p, q, rpcUp, clock)
     IN (q <= 0 \/ ~products[p].exists) =>
          /\ rpc.err # "none" /\ rpc.products = products /\ rpc.lots = inventory_purchases
          /\ r.err # "none" /\ r.products = products /\ r.lots = inventory_purchases

\* ---------------------------------------------------------------- the method read
\* C14 (as claimed): the sale trigger and the valuation report work under one
\* and the same method, the one last stored.
OnePolicyForBoth ==
  /\ get_inventory_valuation_method(ValuationSetting) = Policy
  /\ \A r \in calculate_inventory_value(products, inventory_purchases, ValuationSetting) :
        r.method_used = Policy

\* C15: with no row stored the method read is FIFO, for the sale trigger and
\* for the report, and a sale then costs, allocates and ends exactly as it
\* does with 'FIFO' stored.
DefaultIsFifo ==
  /\ get_inventory_costing_method(NoSetting) = "FIFO"
  /\ get_inventory_valuation_method(NoSetting) = "FIFO"
  /\ calculate_inventory_value(products, inventory_purchases, NoSetting)
       = calculate_inventory_value(products, inventory_purchases, "FIFO")
  /\ \A p \in Products, q \in 1..(MaxSaleQty + 1) :
        /\ calculate_sale_cost(inventory_purchases, NoSetting, p, q)
             = calculate_sale_cost(inventory_purchases, "FIFO", p, q)
        /\ allocate_inventory_on_sale(inventory_purchases, NoSetting, p, q)
             = allocate_inventory_on_sale(inventory_purchases, "FIFO", p, q)
        /\ InsertSaleItems(Tables(products, inventory_purchases, sale_items),
                           NoSetting, OneLine(p, q))
             = InsertSaleItems(Tables(products, inventory_purchases, sale_items),
                               "FIFO", OneLine(p, q))
  /\ setting_value = NoSetting => Policy = "FIFO"

\* a sale went through with no method stored, draining an older lot and
\* leaving a newer one of another cost
SoldWithNoMethodStored ==
  /\ setting_value = NoSetting
  /\ last = Answer("sale", "none", 0)
  /\ \E i, j \in 1..Len(inventory_purchases) :
        LET a == inventory_purchases[i]
            b == inventory_purchases[j]
        IN /\ a.purchased_at < b.purchased_at
           /\ a.unit_cost # b.unit_cost
           /\ a.remaining_quantity = 0
           /\ b.remaining_quantity > 0

\* ---------------------------------------------------------------- valuation report
ValuationMethods == {"FIFO", "LIFO", "AVERAGE"}

\* C16: a step that runs the valuation report changes no product, no lot, no
\* sale line and no stored method, so the rows it returns are the rows the
\* next run returns, under each method.
ValuationStep ==
  last'.op = "valuation" =>
     /\ products' = products
     /\ inventory_purchases' = inventory_purchases
     /\ setting_value' = setting_value
     /\ sale_items' = sale_items
     /\ \A v \in ValuationMethods :
           calculate_inventory_value(products', inventory_purchases', v)
             = calculate_inventory_value(products, inventory_purchases, v)

\* C16: every valuation step is read-only
ValuationReadOnly == [][ValuationStep]_vars

\* the report was just run over a product in stock valued apart from its cost
ReportRunOverMixedLots ==
  /\ last.op = "valuation"
  /\ \E r \in calculate_inventory_value(products, inventory_purchases, ValuationSetting) :
        /\ r.valuation_cost # products[r.product_id].cost
        /\ r.total_value > 0

\* the worked example after its sale of 8: 2 units left, in the lot the
\* method in force did not drain
ExampleValue(sold, valued) ==
  LET r == ExampleSale(sold)
  IN calculate_inventory_value(r.products, r.lots, valued)

\* C17 (as claimed): under FIFO and under LIFO the total the report gives for
\* a product is the sum over its lots of remaining_quantity * unit_cost; in
\* the example the 2 units left are worth 24.00 after the FIFO sale and 20.00
\* after the LIFO sale.
ValuationSumsRemaining ==
  /\ \A v \in {"FIFO", "LIFO"} :
        \A r \in calculate_inventory_value(products, inventory_purchases, v) :
           r.total_value = LotValue(inventory_purchases, r.product_id)
  /\ \A r \in ExampleValue("FIFO", "FIFO") : r.total_value = 2400
  /\ \A r \in ExampleValue("LIFO", "LIFO") : r.total_value = 2000

\* C18 (as claimed): under AVERAGE the total the report gives for a product is
\* its remaining quantity times sum(remaining * unit_cost) / sum(remaining)
\* over the lots with something left, which is what the AVERAGE sale cost of
\* all of it comes to; a lot with nothing left has no part in it. In the
\* example the 2 units left at 12.00 after the FIFO sale are worth 24.00.
AverageValuationOverUnconsumed ==
  /\ \A r \in calculate_inventory_value(products, inventory_purchases, "AVERAGE") :
        LET p == r.product_id
            units == SumRemaining(inventory_purchases, p)
        IN units > 0 =>
             r.total_value = RoundDiv(units * LotValue(inventory_purchases, p), units)
  /\ \A r \in ExampleValue("FIFO", "AVERAGE") : r.total_value = 2400

\* ---------------------------------------------------------------- sale number format
RECURSIVE Pow10(_)
Pow10(n) == IF n = 0 THEN 1 ELSE 10 * Pow10(n - 1)

\* the number a string of digits writes
DecimalValue(d) == SumSeq([i \in 1..Len(d) |-> Val(d[i]) * Pow10(Len(d) - i)], Len(d))

AllDigits(str) == str # <<>> /\ \A i \in 1..Len(str) : str[i] \in DigitChars

\* the longest run of digits a string starts with
LeadingDigits(str) ==
  LET runs == {k \in 0..Len(str) : \A i \in 1..k : str[i] \in DigitChars}
  IN SubSeq(str, 1, CHOOSE k \in runs : \A j \in runs : j <= k)

\* number is SALE-<dateKey>-<counter>, the counter written in at least 4
\* digits with zeros in front and none in front of a longer one
HasFormat(number, dateKey, counter) ==
  LET head == SalePrefix \o dateKey \o <<"-">>
      tail == SubSeq(number, Len(head) + 1, Len(number))
  IN /\ Len(number) >= Len(head) + 4
     /\ SubSeq(number, 1, Len(head)) = head
     /\ AllDigits(tail)
     /\ DecimalValue(tail) = counter
     /\ Len(tail) > 4 => tail[1] # "0"

NumberStep(counterAfter(_)) ==
  (sales' = sales + 1) =>
     LET given == sale_number.last
         made == sale_number'.last
     IN /\ sale_number'.dateKey = sale_number.dateKey
        /\ HasFormat(made, sale_number.dateKey, counterAfter(given))
        /\ HasFormat(buildSaleNumber(sale_number.dateKey, made), sale_number.dateKey,
                     counterAfter(given) + 1)

\* the counter as claimed: 1 after no number or a last segment that is not a
\* number, else that number plus 1
CounterAsClaimed(given) ==
  IF given \in {Null, <<>>} \/ ~AllDigits(SplitPop(given)) THEN 1
  ELSE DecimalValue(SplitPop(given)) + 1

\* the counter as built: 1 after no number or a last segment that does not
\* start with a digit, else the number its leading digits write plus 1
CounterAsBuilt(given) ==
  IF given \in {Null, <<>>} \/ LeadingDigits(SplitPop(given)) = <<>> THEN 1
  ELSE DecimalValue(LeadingDigits(SplitPop(given))) + 1

CommittedAtCostOfLotsTaken ==
  (Len(sale_items') = Len(sale_items) + 1) =>
     LET row == sale_items'[Len(sale_items')]
     IN /\ SumRemaining(inventory_purchases, row.product_id)
             - SumRemaining(inventory_purchases', row.product_id) = row.quantity
        /\ row.cost_price = RoundDiv(ConsumedCost(row.product_id), row.quantity)

\* C20 (as claimed): whatever the interleaving of two sales of one product,
\* under FIFO and LIFO the cost recorded for a committed line is the cost of
\* the units that sale took from the lots, lot by lot at the lot's unit cost.
CostPricedFromLotsTaken == [][CommittedAtCostOfLotsTaken]_vars

\* ---------------------------------------------------------------- lot creation
NewLots == SubSeq(inventory_purchases', Len(inventory_purchases) + 1, Len(inventory_purchases'))

\* the stock a step added to a product
Receipt(p) ==
  IF products[p].exists THEN products'[p].stock - products[p].stock ELSE products'[p].stock

\* C21 (as claimed): a step that creates a product with stock s > 0 or adds q
\* units to a product creates exactly one lot, of that quantity, by the RPC
\* and by the manual path alike; a product created with no stock gets no lot.
OneLotPerReceiptStep ==
  \A p \in Products :
     (last'.op \in {"product", "restock"} /\ last'.err = "none" /\ products'[p].exists) =>
        IF Receipt(p) > 0
          THEN /\ Len(NewLots) = 1
               /\ NewLots[1].product_id = p
               /\ NewLots[1].quantity = Receipt(p)
          ELSE Len(NewLots) = 0

\* C21 (as claimed): every receipt step creates exactly one lot
OneLotPerReceipt == [][OneLotPerReceiptStep]_vars

\* the shops the migration may have found: each product active or archived
MigratedShops ==
  [Products -> [exists : {TRUE}, stock : 0..MaxRestock, cost : Costs, is_active : BOOLEAN]]

\* C22: every lot a step creates, by the initial-stock trigger, the
\* stock-increase trigger, add_product_stock or the manual path, starts with
\* remaining_quantity = quantity and carries the product's cost of that
\* moment; so does every lot the migration made out of the existing products.
LotCreatedFullStep ==
  /\ \A k \in 1..Len(NewLots) :
        /\ NewLots[k].remaining_quantity = NewLots[k].quantity
        /\ NewLots[k].unit_cost = products'[NewLots[k].product_id].cost
        /\ NewLots[k].purchased_at = clock
  /\ \A P \in MigratedShops : \A k \in 1..Len(MigrateExisting(P)) :
        LET l == MigrateExisting(P)[k]
        IN /\ P[l.product_id].is_active
           /\ l.quantity = P[l.product_id].stock
           /\ l.remaining_quantity = l.quantity
           /\ l.unit_cost = P[l.product_id].cost

Tied(i, j) ==
  /\ i < j
  /\ inventory_purchases[i].product_id = inventory_purchases[j].product_id
  /\ inventory_purchases[i].purchased_at = inventory_purchases[j].purchased_at
  /\ inventory_purchases[i].remaining_quantity > 0
  /\ inventory_purchases[j].remaining_quantity > 0

TiesAscendingStep(methods) ==
  (IsSale /\ last'.err = "none" /\ Policy \in methods) =>
     \A i, j \in 1..Len(inventory_purchases) :
        (Tied(i, j) /\ inventory_purchases'[j].remaining_quantity
                          < inventory_purchases[j].remaining_quantity) =>
           inventory_purchases'[i].remaining_quantity = 0

\* C23 (as claimed): of two unconsumed lots received at the same instant a sale
\* visits the one of the lower id first, under FIFO and under LIFO: it takes
\* from the later-inserted lot only once the earlier-inserted one is empty.
TiesVisitedAscending == [][TiesAscendingStep({"FIFO", "LIFO"})]_vars

\* ---------------------------------------------------------------- AVERAGE depletion
\* the ledger a FIFO allocation of the given sale lines leaves
RECURSIVE FifoReplay(_, _, _)
FifoReplay(L, rows, k) ==
  IF k > Len(rows) THEN L
  ELSE FifoReplay(allocate_inventory_on_sale(L, "FIFO", rows[k].product_id,
                                             rows[k].quantity).lots,
                  rows, k + 1)

\* C24: a sale under AVERAGE leaves in every lot the remaining quantity a FIFO
\* allocation of the same lines from the same ledger would leave; the walk is
\* oldest first and takes min(remaining, still needed) from each lot.
AverageDepletesStep ==
  (IsSale /\ last'.err = "none" /\ Policy = "AVERAGE") =>
     LET fifo == FifoReplay(inventory_purchases, NewRows, 1)
     IN \A i \in 1..Len(inventory_purchases) :
           /\ inventory_purchases'[i].remaining_quantity = fifo[i].remaining_quantity
           /\ Consumed(i) > 0 =>
                 \A j \in 1..Len(inventory_purchases) :
                    (inventory_purchases[j].product_id = inventory_purchases[i].product_id
                       /\ Before(inventory_purchases[j], inventory_purchases[i])) =>
                          inventory_purchases'[j].remaining_quantity = 0

LotsWithinBounds ==
  \A i \in 1..Len(inventory_purchases) :
     /\ 0 <= inventory_purchases[i].remaining_quantity
     /\ inventory_purchases[i].remaining_quantity <= inventory_purchases[i].quantity
     /\ inventory_purchases[i].quantity > 0
     /\ inventory_purchases[i].unit_cost >= 0

\* the ledger holds an emptied lot next to a partly consumed one
EmptyAndPartLot ==
  \E i, j \in 1..Len(inventory_purchases) :
     /\ inventory_purchases[i].remaining_quantity = 0
     /\ inventory_purchases[j].remaining_quantity > 0
     /\ inventory_purchases[j].remaining_quantity < inventory_purchases[j].quantity

\* ---------------------------------------------------------------- lot frame
\* C26: across every step an existing lot keeps its id, product, quantity,
\* unit_cost and purchased_at; its remaining_quantity never rises, and falls
\* only in a step that is a successful sale.
LotFrameStep ==
  /\ Len(inventory_purchases') >= Len(inventory_purchases)
  /\ \A i \in 1..Len(inventory_purchases) :
        /\ inventory_purchases'[i].id = inventory_purchases[i].id
        /\ inventory_purchases'[i].product_id = inventory_purchases[i].product_id
        /\ inventory_purchases'[i].quantity = inventory_purchases[i].quantity
        /\ inventory_purchases'[i].unit_cost = inventory_purchases[i].unit_cost
        /\ inventory_purchases'[i].purchased_at = inventory_purchases[i].purchased_at
        /\ inventory_purchases'[i].remaining_quantity
              <= inventory_purchases[i].remaining_quantity
        /\ inventory_purchases'[i].remaining_quantity
              < inventory_purchases[i].remaining_quantity
             => (IsSale /\ last'.err = "none")

\* C26: only a sale touches an existing lot, and only its remaining quantity
LotFrame == [][LotFrameStep]_vars

\* a restock has just come in at a changed cost beside a partly sold older lot
RestockedBesidePartSoldLot ==
  /\ last = Answer("restock", "none", 0)
  /\ \E i, j \in 1..Len(inventory_purchases) :
        /\ inventory_purchases[i].purchased_at < inventory_purchases[j].purchased_at
        /\ inventory_purchases[i].remaining_quantity < inventory_purchases[i].quantity
        /\ inventory_purchases[i].unit_cost # inventory_purchases[j].unit_cost
        /\ inventory_purchases[j].unit_cost = products[inventory_purchases[j].product_id].cost

\* ---------------------------------------------------------------- lots are kept
\* C27: no step removes a lot: the ledger never gets shorter, every lot stays
\* where it was under its id, and a lot that reached remaining_quantity = 0 is
\* still there with 0, whether or not its product has been archived since.
LotsKeptStep ==
  /\ Len(inventory_purchases') >= Len(inventory_purchases)
  /\ \A i \in 1..Len(inventory_purchases) :
        /\ i <= Len(inventory_purchases')
        /\ inventory_purchases'[i].id = inventory_purchases[i].id
        /\ inventory_purchases'[i].product_id = inventory_purchases[i].product_id
        /\ inventory_purchases[i].remaining_quantity = 0
             => inventory_purchases'[i].remaining_quantity = 0

StockNeverNegative ==
  /\ \A p \in Products : products[p].stock >= 0
  /\ \A t \in Sessions : tx[t].pc = "commit" => tx[t].stock >= 0
  /\ SoldQty(sale_items, ConcProduct) <= stock0

\* the second sale passed the stock check on the stock of before the first
\* one's commit, found lots enough, and was stopped at the stock update
OversaleStoppedAtUpdate ==
  /\ tx[1].pc = "done" /\ tx[1].err = "none"
  /\ tx[2].pc = "done" /\ tx[2].err = "check constraint"
  /\ tx[2].v_product_stock = stock0
  /\ tx[2].q <= stock0
  /\ tx[1].q + tx[2].q > stock0
  /\ products[ConcProduct].stock = stock0 - tx[1].q

\* ---------------------------------------------------------------- sale header
\* C29 (as claimed): a recordSale whose insert of the lines fails leaves no
\* header row of that attempt: the number of sales rows is as before.
NoHeaderWithoutLinesStep ==
  (last'.op = "sale" /\ last'.err # "none") =>
     /\ sales' = sales
     /\ sale_items' = sale_items

\* C29 (as claimed): a failed sale leaves no sales row behind
NoHeaderWithoutLines == [][NoHeaderWithoutLinesStep]_vars

\* ---------------------------------------------------------------- UI lock
\* C30: lockCount is the number of runWithLock calls in flight and never
\* negative; isLocked holds exactly while a call is in flight, so it stays true
\* until the last overlapping call has finished and is false once all have,
\* whether they returned or threw.
LockHeldWhileInFlight ==
  /\ lockCount = Cardinality(InFlight)
  /\ lockCount >= 0
  /\ isLocked <=> InFlight # {}

\* of two overlapping calls one has thrown and the other is still running
OneThrownOneRunning ==
  /\ \E c, d \in Calls : calls[c] = "thrown" /\ calls[d] = "running"
  /\ Cardinality(InFlight) = 1
  /\ isLocked

====
